---- MODULE Spec2Model ----
(***************************************************************************)
(* ifo2mkv: one run of main() of src/ifo2mkv.cpp, from argument parsing to *)
(* process exit, over a DVD navigation structure given as input.           *)
(*                                                                         *)
(* The DVD (what libdvdread returns from DVDOpen2 / ifoOpen) is an input   *)
(* record chosen in Init.  Everything main() and get_chapters_for_title()  *)
(* do with it is modelled: the logger, the XML writer and its output       *)
(* stream, the chapter walker with its 32 bit unsigned arithmetic, the     *)
(* exception paths and the exit status.                                    *)
(*                                                                         *)
(* Domain of the arithmetic operators: frame counts below 2^31 and frame   *)
(* rates below 2^15 (TLC's integers are 32 bit signed; the product         *)
(* factor * num_frames is computed modulo 2^32 on 16 bit limbs).  With the *)
(* inputs enumerated here a title's frame total stays far below 2^31, so   *)
(* the unsigned additions of lines 235, 236 and 239 never wrap.            *)
(***************************************************************************)
EXTENDS Integers, Sequences, FiniteSets, TLC

(* ------------------------------ bounds -------------------------------- *)
MaxTitles == 2
MaxChapters == 3
MaxCells == 3

(* --------------------------- pure functions --------------------------- *)

\* 2^16: one half of an unsigned int (line 196 computes in unsigned int).
Limb == 2^16

\* template <typename T> constexpr T from_bcd(T val), T = uint8_t:
\* (((val & 0xf0) >> 4) * 10) + (val & 0x0f), converted back to uint8_t.
from_bcd(val) == (((val \div 16) * 10) + (val % 16)) % 256

\* Line 196, the arithmetic: (factor * num_frames) as unsigned int, that is
\* modulo 2^32, divided by fps (by 1 when fps is 0), then static_cast to
\* int32_t.  The product is formed on 16 bit limbs hi:lo.
scaled_u32(factor, num_frames, fps) ==
    LET d  == IF fps # 0 THEN fps ELSE 1
        nh == num_frames \div Limb
        nl == num_frames % Limb
        a  == factor * nl
        hi == (factor * nh + (a \div Limb)) % Limb
        lo == a % Limb
        qh == hi \div d
        ql == ((hi % d) * Limb + lo) \div d
    IN  IF qh >= Limb \div 2 THEN (qh - Limb) * Limb + ql ELSE qh * Limb + ql

\* Faulty variant: the NTSC factor 1001 is forgotten.
frames_to_timestamp_ms_pal_only(num_frames, fps) == scaled_u32(1000, num_frames, fps)

\* Lines 193-197: int32_t frames_to_timestamp_ms(unsigned num_frames, unsigned fps).
frames_to_timestamp_ms(num_frames, fps) ==
    scaled_u32(IF fps = 30 THEN 1001 ELSE 1000, num_frames, fps)

\* Whether factor * num_frames exceeds 32 bits (the product of line 196 wraps).
product_wraps(num_frames, fps) ==
    LET factor == IF fps = 30 THEN 1001 ELSE 1000
    IN  factor * (num_frames \div Limb) + ((factor * (num_frames % Limb)) \div Limb) >= Limb

\* Faulty variant: the rate is read from bit 6 alone.
cell_fps_bit6(frame_u) == IF (frame_u \div 64) % 2 = 1 THEN 25 ELSE 30

\* Line 234: fps = ((dt->frame_u & 0xc0) >> 6) == 1 ? 25 : 30.
cell_fps(frame_u) == IF frame_u \div 64 = 1 THEN 25 ELSE 30

\* Faulty variant: the frame field of line 236 is not added.
cell_frames_no_field(dt) ==
    ((from_bcd(dt.hour) * 60 * 60) + from_bcd(dt.minute) * 60 + from_bcd(dt.second))
        * cell_fps(dt.frame_u)

\* Lines 231-236: the frames one cell adds to cur_frames.
cell_frames(dt) ==
    ((from_bcd(dt.hour) * 60 * 60) + from_bcd(dt.minute) * 60 + from_bcd(dt.second))
        * cell_fps(dt.frame_u)
    + ((dt.frame_u \div 16) % 4) * 10 + (dt.frame_u % 16)

\* Lines 228-237: the loop over cur_cell = start_cell .. end_cell (0-based
\* indices into cell_playback), threading cur_frames and fps.
RECURSIVE cell_loop(_, _, _, _)
cell_loop(cell_playback, cur_cell, end_cell, acc) ==
    IF cur_cell > end_cell THEN acc
    ELSE LET dt == cell_playback[cur_cell + 1].playback_time
         IN  cell_loop(cell_playback, cur_cell + 1, end_cell,
                       [cur_frames |-> acc.cur_frames + cell_frames(dt),
                        fps |-> cell_fps(dt.frame_u)])

\* Faulty variant: the cumulative counter is overwritten by the chapter subtotal.
accumulate_overwrite(overall_frames, cur_frames) == cur_frames

\* Line 239: overall_frames += cur_frames.
accumulate(overall_frames, cur_frames) == overall_frames + cur_frames

\* Faulty variant: the loop stops one chapter early.
chapter_loop_cond_short(chapter, nr_of_ptts) == chapter < nr_of_ptts - 2

\* Line 216: chapter < nr_of_ptts - 1 (int arithmetic; nr_of_ptts is uint16_t).
chapter_loop_cond(chapter, nr_of_ptts) == chapter < nr_of_ptts - 1

\* Lines 58-73: lvl_to_str over dvd_logger_level_t (INFO, ERROR, WARN, DEBUG).
lvl_to_str(lvl) ==
    CASE lvl = 0 -> "INFO"
      [] lvl = 1 -> "ERROR"
      [] lvl = 2 -> "WARN"
      [] lvl = 3 -> "DEBUG"
      [] OTHER   -> "unknown"

\* Integer division of C++ (truncating towards zero), b > 0.
c_div(a, b) == IF a >= 0 THEN a \div b ELSE (a + b - 1) \div b
c_mod(a, b) == a - b * c_div(a, b)

(* ------------------------- the document writer ------------------------ *)
\* A writer is [stream_, chapter_num_, rnd_draws]: the output stream's
\* markup so far, the chapter counter and the number of values drawn from
\* rnd_gen_ (each identifier is the next draw).

\* Lines 140-146: the constructor's root opening markup.
writer_ctor(stream) ==
    [stream_ |-> Append(stream, [tag |-> "Chapters"]), chapter_num_ |-> 1, rnd_draws |-> 0]

\* Faulty variant: the destructor writes nothing.
writer_dtor_markup_none(stream) == stream

\* Lines 148-151: the destructor's root closing tag.
writer_dtor_markup(stream) == Append(stream, [tag |-> "/Chapters"])

\* Lines 153-163.
on_title_start(w) ==
    [stream_ |-> Append(w.stream_, [tag |-> "EditionEntry", uid |-> w.rnd_draws + 1]),
     chapter_num_ |-> 1,
     rnd_draws |-> w.rnd_draws + 1]

\* Lines 164-167.
on_title_end(w) ==
    [w EXCEPT !.stream_ = Append(w.stream_, [tag |-> "/EditionEntry"])]

\* Lines 168-185.
on_chapter_start(w, timestamp_ms) ==
    [stream_ |-> Append(w.stream_,
                        [tag |-> "ChapterAtom",
                         uid |-> w.rnd_draws + 1,
                         hr  |-> c_div(timestamp_ms, 3600000),
                         min |-> c_mod(c_div(timestamp_ms, 60000), 60),
                         sec |-> c_mod(c_div(timestamp_ms, 1000), 60),
                         ms  |-> c_mod(timestamp_ms, 1000),
                         num |-> w.chapter_num_]),
     chapter_num_ |-> w.chapter_num_ + 1,
     rnd_draws |-> w.rnd_draws + 1]

(* ------------------------------ the logger ---------------------------- *)
\* Faulty variant: disable_report leaves the flag as it is.
disable_report_noop(do_report) == do_report

\* Lines 52-55.
disable_report(do_report) == FALSE

\* A call of the library into the logger's callback is [lvl, num_written]:
\* the level and what vsnprintf returns for the message's format and
\* arguments (negative when the formatting fails, else the full length).

\* Lines 86-89: real_log stores the level with the text (here its length).
real_log(messages, lvl, str_len) == Append(messages, [lvl |-> lvl, len |-> str_len])

\* Lines 75-85: pf_log_ formats into msg[16 * 1024]; nothing is recorded
\* when vsnprintf fails, and the text is cut to sizeof(msg) - 1 characters.
pf_log_(messages, call) ==
    IF call.num_written >= 0
      THEN real_log(messages, call.lvl,
                    IF call.num_written < 16 * 1024 - 1 THEN call.num_written
                    ELSE 16 * 1024 - 1)
      ELSE messages

\* The callback invoked for each call the library makes during one open.
RECURSIVE log_calls(_, _)
log_calls(messages, calls) ==
    IF calls = <<>> THEN messages
    ELSE log_calls(pf_log_(messages, Head(calls)), Tail(calls))

\* Lines 40-50: what the destructor writes to the diagnostic stream.
RECURSIVE report_lines(_)
report_lines(messages) ==
    IF messages = <<>> THEN <<>>
    ELSE <<[tag |-> "message", lvl |-> lvl_to_str(Head(messages).lvl),
            len |-> Head(messages).len]>>
         \o report_lines(Tail(messages))

logger_dtor_report(do_report, messages) ==
    IF do_report THEN <<[tag |-> "report_header"]>> \o report_lines(messages) ELSE <<>>

(* ------------------------------- inputs ------------------------------- *)
\* dvd_time_t inside cell_playback_t: BCD hour, minute, second and the
\* combined frame/rate byte frame_u.
Cell(h, m, s, f) == [playback_time |-> [hour |-> h, minute |-> m, second |-> s, frame_u |-> f]]

\* 1 s 20 frames NTSC (50 frames), 20 s PAL (500 frames), 20 h NTSC (2160000 frames).
CellNtsc == Cell(0, 0, 1, 224)
CellPal  == Cell(0, 0, 32, 64)
CellLong == Cell(32, 0, 0, 192)
CellTimes == {CellNtsc, CellPal, CellLong}

\* pgci_srp entry: a program chain with its program map and cell table.
Pgc(map, cells) == [pgc |-> [program_map |-> map, cell_playback |-> cells]]

\* A video title set's IFO with one title (ttn 1), its chapter markers and
\* its program chains.
VtsIfo(markers, pgcs) ==
    [vts_ptt_srpt |-> [title |-> << [ptt |-> markers] >>],
     vts_pgcit    |-> [pgci_srp |-> pgcs]]

\* The video manager's IFO: title t (1-based here) lives in title set t.
VmgIfo(nr, ptts) ==
    [tt_srpt |-> [nr_of_srpts |-> nr,
                  title |-> [t \in 1..nr |->
                               [title_set_nr |-> t, vts_ttn |-> 1, nr_of_ptts |-> ptts]]]]

\* What the library may log during one open: nothing, a warning, an error
\* whose format vsnprintf rejects followed by an info line, or a debug line
\* longer than the callback's buffer.
LogCall(lvl, num_written) == [lvl |-> lvl, num_written |-> num_written]
LibLogs ==
    {<<>>, <<LogCall(2, 40)>>, <<LogCall(1, -1), LogCall(0, 12)>>, <<LogCall(3, 16 * 1024 + 5)>>}

\* A DVD as libdvdread presents it: whether DVDOpen2 succeeds, which IFO
\* ifoOpen cannot open (-1: none), what the library logs on each call, and
\* the IFO contents by number (0 is the video manager).
Disc(present, bad_ifo, lib_log, nr, vts) ==
    [present |-> present, bad_ifo |-> bad_ifo, lib_log |-> lib_log,
     ifo |-> [n \in 0..nr |-> IF n = 0 THEN VmgIfo(nr, Len(vts.vts_ptt_srpt.title[1].ptt))
                                     ELSE vts]]

IdentityMap == [i \in 1..MaxCells |-> i]
AllCells(c) == [i \in 1..MaxCells |-> c]
Marker(pgcn, pgn) == [pgcn |-> pgcn, pgn |-> pgn]
Markers == {Marker(g, p) : g \in 1..2, p \in 1..MaxCells}

\* Two markers in program chain 1, both chains full of 50 frame NTSC / PAL cells.
SimpleVts ==
    VtsIfo(<<Marker(1, 1), Marker(1, 2)>>,
           <<Pgc(IdentityMap, AllCells(CellNtsc)), Pgc(IdentityMap, AllCells(CellPal))>>)

\* argv: argc, and for argc = 3 whether std::stoi(argv[2]) succeeds and its value.
Args(argc, ok, val) == [argc |-> argc, stoi_ok |-> ok, stoi_val |-> val]
ArgsAll == Args(2, TRUE, 0)

AllArgs ==
    {Args(1, TRUE, 0), ArgsAll, Args(4, TRUE, 0), Args(3, FALSE, 0)}
    \cup {Args(3, TRUE, v) : v \in (-1)..(MaxTitles + 1)}

Input(args, disc, rnd_ok) == [argv |-> args, dvd |-> disc, rnd_ok |-> rnd_ok]

\* Every command line against discs of 0..MaxTitles titles, with each way
\* an open can fail, a silent or a talkative library, and a working or a
\* failing std::random_device.
StructInputs ==
    {Input(a, Disc(p, b, l, nr, SimpleVts), r) :
        a \in AllArgs, p \in BOOLEAN, b \in (-1)..MaxTitles, l \in LibLogs,
        nr \in 0..MaxTitles, r \in BOOLEAN}

\* One title, chapter i starting at program i of chain 1, every choice of cells.
SeqMarkers(n) == [i \in 1..n |-> Marker(1, IF i <= MaxCells THEN i ELSE MaxCells)]
CellInputs ==
    {Input(ArgsAll,
           Disc(TRUE, -1, <<>>, 1,
                VtsIfo(SeqMarkers(n), <<Pgc(IdentityMap, cs), Pgc(IdentityMap, AllCells(CellPal))>>)),
           TRUE) :
        n \in 0..MaxChapters, cs \in [1..MaxCells -> CellTimes]}

\* One title, every choice of up to MaxChapters markers over two chains.
MarkerInputs ==
    {Input(ArgsAll,
           Disc(TRUE, -1, <<>>, 1,
                VtsIfo(ms, <<Pgc(IdentityMap, AllCells(cc[1])), Pgc(IdentityMap, AllCells(cc[2]))>>)),
           TRUE) :
        ms \in UNION {[1..n -> Markers] : n \in 0..MaxChapters},
        cc \in {<<CellNtsc, CellPal>>, <<CellNtsc, CellNtsc>>, <<CellLong, CellNtsc>>}}

\* One title of two chapters whose first cell carries any time record with
\* frame/rate byte b.
ByteInputs ==
    {Input(ArgsAll,
           Disc(TRUE, -1, <<>>, 1,
                VtsIfo(<<Marker(1, 1), Marker(1, 2)>>,
                       <<Pgc(<<1, 2>>, <<Cell(0, 0, 1, b), CellNtsc>>),
                         Pgc(<<1>>, <<CellPal>>)>>)),
           TRUE) :
        b \in 0..255}

\* A chapter of three cells of 100, 200 and 50 frames at rate 30, followed
\* by the cell that starts the next chapter.
MultiCellVts ==
    VtsIfo(<<Marker(1, 1), Marker(1, 2)>>,
           <<Pgc(<<1, 4>>, <<Cell(0, 0, 3, 208), Cell(0, 0, 6, 224), Cell(0, 0, 1, 224), CellNtsc>>),
             Pgc(<<1>>, <<CellPal>>)>>)

\* Single-cell first chapters of 25 frames PAL, 30 frames NTSC, 2997 frames NTSC.
ExampleCells == {Cell(0, 0, 1, 64), Cell(0, 0, 1, 192), Cell(0, 1, 57, 231)}
ExampleInputs ==
    {Input(ArgsAll, Disc(TRUE, -1, <<>>, 1, MultiCellVts), TRUE)}
    \cup {Input(ArgsAll,
                Disc(TRUE, -1, <<>>, 1,
                     VtsIfo(<<Marker(1, 1), Marker(1, 2)>>,
                            <<Pgc(<<1, 2>>, <<c, CellNtsc>>), Pgc(<<1>>, <<CellPal>>)>>)),
                TRUE) : c \in ExampleCells}

Inputs == StructInputs \cup CellInputs \cup MarkerInputs \cup ByteInputs \cup ExampleInputs

(* -------------------------------- state ------------------------------- *)
VARIABLES
    argv,                 \* the command line (input)
    dvd,                  \* the DVD structure under argv[1] (input)
    rnd_ok,               \* whether std::random_device works (input)
    pc,                   \* where main() is
    title,                \* main: the parsed title selector (line 259)
    t,                    \* main: the loop variable of line 288
    handles,              \* the open libdvdread handles (dvd_uptr, ifo_uptr)
    exc,                  \* the exception in flight, [type, what, arg]
    ret,                  \* main's return value, -1 until it returns
    logger,               \* "none", "alive" or "destroyed"
    messages_,            \* libdvdread_logger::messages_ (level, text length)
    do_report_messages_,  \* libdvdread_logger::do_report_messages_
    writer,               \* "none", "alive" or "destroyed"
    chapter_num_,         \* matroska_chapter_xml_writer::chapter_num_
    rnd_draws,            \* values drawn from rnd_gen_ so far
    cout,                 \* the markup written to std::cout
    cerr,                 \* the lines written to std::cerr
    w_title,              \* get_chapters_for_title: the parameter title
    chapter,              \* get_chapters_for_title: the loop variable
    overall_frames,       \* get_chapters_for_title: overall_frames
    fps,                  \* get_chapters_for_title: fps
    cur_frames,           \* the last iteration's cur_frames
    start_cell,           \* the last iteration's start_cell
    end_cell,             \* the last iteration's end_cell
    pgc_id                \* the last iteration's pgc_id, naming cur_pgc

vars == <<argv, dvd, rnd_ok, pc, title, t, handles, exc, ret, logger, messages_,
          do_report_messages_, writer, chapter_num_, rnd_draws, cout, cerr, w_title,
          chapter, overall_frames, fps, cur_frames, start_cell, end_cell, pgc_id>>

inputVars  == <<argv, dvd, rnd_ok>>
writerVars == <<writer, chapter_num_, rnd_draws, cout>>
walkVars   == <<w_title, chapter, overall_frames, fps, cur_frames, start_cell, end_cell, pgc_id>>

NoExc == [type |-> "none", what |-> "", arg |-> 0]

\* The writer object as the record the writer operators work on.
W == [stream_ |-> cout, chapter_num_ |-> chapter_num_, rnd_draws |-> rnd_draws]

SetWriter(w) ==
    /\ cout' = w.stream_
    /\ chapter_num_' = w.chapter_num_
    /\ rnd_draws' = w.rnd_draws

\* vmg->tt_srpt and the entry of the title the walker works on.
tt_srpt == dvd.ifo[0].tt_srpt
tt == tt_srpt.title[w_title + 1]
vts == dvd.ifo[tt.title_set_nr]

Init ==
    /\ \E in \in Inputs :
          /\ argv = in.argv
          /\ dvd = in.dvd
          /\ rnd_ok = in.rnd_ok
    /\ pc = "main"
    /\ title = 0
    /\ t = 0
    /\ handles = {}
    /\ exc = NoExc
    /\ ret = -1
    /\ logger = "none"
    /\ messages_ = <<>>
    /\ do_report_messages_ = TRUE
    /\ writer = "none"
    /\ chapter_num_ = 1
    /\ rnd_draws = 0
    /\ cout = <<>>
    /\ cerr = <<>>
    /\ w_title = 0
    /\ chapter = 0
    /\ overall_frames = 0
    /\ fps = 0
    /\ cur_frames = 0
    /\ start_cell = 0
    /\ end_cell = 0
    /\ pgc_id = 0

(* ------------------------------- actions ------------------------------ *)

\* Lines 249-279: usage and selector parsing; on success the logger is built.
main_args ==
    /\ pc = "main"
    /\ IF ~(argv.argc = 2 \/ argv.argc = 3)
         THEN /\ cerr' = Append(cerr, [tag |-> "usage"])
              /\ ret' = 1 /\ pc' = "done"
              /\ UNCHANGED <<title, logger>>
       ELSE IF argv.argc = 3 /\ ~argv.stoi_ok
         THEN /\ cerr' = Append(cerr, [tag |-> "could_not_convert"])
              /\ ret' = 1 /\ pc' = "done"
              /\ UNCHANGED <<title, logger>>
       ELSE IF argv.argc = 3 /\ argv.stoi_val < 0
         THEN /\ cerr' = Append(cerr, [tag |-> "negative_title"])
              /\ ret' = 1 /\ pc' = "done"
              /\ UNCHANGED <<title, logger>>
       ELSE /\ title' = (IF argv.argc = 3 THEN argv.stoi_val ELSE 0)
            /\ logger' = "alive"
            /\ pc' = "dvd_open"
            /\ UNCHANGED <<cerr, ret>>
    /\ UNCHANGED <<inputVars, t, handles, exc, messages_, do_report_messages_,
                   writerVars, walkVars>>

\* Lines 103-118 called from line 282: dvd_open(argv[1], logger).
main_dvd_open ==
    /\ pc = "dvd_open"
    /\ messages_' = log_calls(messages_, dvd.lib_log)
    /\ IF dvd.present
         THEN /\ handles' = handles \cup {"dvd"}
              /\ pc' = "vmg_open"
              /\ UNCHANGED exc
         ELSE /\ exc' = [type |-> "libdvdread", what |-> "dvd", arg |-> 0]
              /\ pc' = "catch"
              /\ UNCHANGED handles
    /\ UNCHANGED <<inputVars, title, t, ret, logger, do_report_messages_, cerr,
                   writerVars, walkVars>>

\* Lines 121-136 called from line 283: ifo_open(*dvd, 0).
main_vmg_open ==
    /\ pc = "vmg_open"
    /\ messages_' = log_calls(messages_, dvd.lib_log)
    /\ IF dvd.bad_ifo # 0
         THEN /\ handles' = handles \cup {"vmg"}
              /\ pc' = "select"
              /\ UNCHANGED exc
         ELSE /\ exc' = [type |-> "libdvdread", what |-> "ifo", arg |-> 0]
              /\ handles' = {}
              /\ pc' = "catch"
    /\ UNCHANGED <<inputVars, title, t, ret, logger, do_report_messages_, cerr,
                   writerVars, walkVars>>

\* The writer's construction (lines 140-146): std::random_device may throw
\* before anything is written.
make_writer(next_pc) ==
    IF rnd_ok
      THEN /\ SetWriter(writer_ctor(cout))
           /\ writer' = "alive"
           /\ pc' = next_pc
           /\ UNCHANGED <<exc, handles>>
      ELSE /\ exc' = [type |-> "std", what |-> "random_device", arg |-> 0]
           /\ handles' = {}
           /\ pc' = "catch"
           /\ UNCHANGED writerVars

\* Faulty variant: the writer is built before the selector is checked.
main_select_writer_first ==
    /\ pc = "select"
    /\ IF title # 0 /\ title >= tt_srpt.nr_of_srpts
         THEN /\ cout' = writer_dtor_markup(writer_ctor(cout).stream_)
              /\ cerr' = Append(cerr, [tag |-> "range", requested |-> title,
                                       available |-> tt_srpt.nr_of_srpts])
              /\ ret' = 1 /\ handles' = {} /\ pc' = "logger_dtor"
              /\ UNCHANGED <<t, exc, writer, chapter_num_, rnd_draws, w_title>>
         ELSE /\ make_writer(IF title = 0 THEN "loop" ELSE "title_open")
              /\ t' = 0
              /\ w_title' = title
              /\ UNCHANGED <<cerr, ret>>
    /\ UNCHANGED <<inputVars, title, logger, messages_, do_report_messages_,
                   chapter, overall_frames, fps, cur_frames, start_cell, end_cell, pgc_id>>

\* Lines 285-301: all titles, or the range check and one title.
main_select ==
    /\ pc = "select"
    /\ IF title = 0
         THEN /\ make_writer("loop")
              /\ t' = 0
              /\ UNCHANGED <<cerr, ret, w_title>>
       ELSE IF title >= tt_srpt.nr_of_srpts
         THEN /\ cerr' = Append(cerr, [tag |-> "range", requested |-> title,
                                       available |-> tt_srpt.nr_of_srpts])
              /\ ret' = 1 /\ handles' = {} /\ pc' = "logger_dtor"
              /\ UNCHANGED <<t, exc, writerVars, w_title>>
       ELSE /\ make_writer("title_open")
            /\ w_title' = title
            /\ UNCHANGED <<cerr, ret, t>>
    /\ UNCHANGED <<inputVars, title, logger, messages_, do_report_messages_,
                   chapter, overall_frames, fps, cur_frames, start_cell, end_cell, pgc_id>>

\* Line 288: the loop over all titles; line 290 calls the walker with t.
main_loop ==
    /\ pc = "loop"
    /\ IF t < tt_srpt.nr_of_srpts
         THEN w_title' = t /\ pc' = "title_open"
         ELSE UNCHANGED w_title /\ pc' = "writer_dtor"
    /\ UNCHANGED <<inputVars, title, t, handles, exc, ret, logger, messages_,
                   do_report_messages_, writerVars, cerr,
                   chapter, overall_frames, fps, cur_frames, start_cell, end_cell, pgc_id>>

\* Lines 206-214: ifo_open of the title's title set, then the title start,
\* the chapter at timestamp 0 and the walker's locals.
get_chapters_open ==
    /\ pc = "title_open"
    /\ messages_' = log_calls(messages_, dvd.lib_log)
    /\ IF dvd.bad_ifo # tt.title_set_nr
         THEN /\ handles' = handles \cup {"vts"}
              /\ SetWriter(on_chapter_start(on_title_start(W), 0))
              /\ overall_frames' = 0
              /\ fps' = 0
              /\ chapter' = 0
              /\ pc' = "chapter"
              /\ UNCHANGED exc
         ELSE /\ exc' = [type |-> "libdvdread", what |-> "ifo", arg |-> tt.title_set_nr]
              /\ pc' = "writer_dtor"
              /\ UNCHANGED <<handles, chapter_num_, rnd_draws, cout, overall_frames, fps, chapter>>
    /\ UNCHANGED <<inputVars, title, t, ret, logger, do_report_messages_, writer, cerr,
                   w_title, cur_frames, start_cell, end_cell, pgc_id>>

\* Lines 216-241: one iteration of the loop over consecutive chapter markers.
get_chapters_step ==
    /\ pc = "chapter"
    /\ chapter_loop_cond(chapter, tt.nr_of_ptts)
    /\ LET ptt      == vts.vts_ptt_srpt.title[tt.vts_ttn].ptt
           pgc_id0  == ptt[chapter + 1].pgcn
           pgn0     == ptt[chapter + 1].pgn
           cur_pgc0 == vts.vts_pgcit.pgci_srp[pgc_id0].pgc
           sc       == cur_pgc0.program_map[pgn0] - 1
           pgc_id1  == ptt[chapter + 2].pgcn
           pgn1     == ptt[chapter + 2].pgn
           cur_pgc  == vts.vts_pgcit.pgci_srp[pgc_id1].pgc
           ec       == cur_pgc.program_map[pgn1] - 2
           acc      == cell_loop(cur_pgc.cell_playback, sc, ec,
                                 [cur_frames |-> 0, fps |-> fps])
           total    == accumulate(overall_frames, acc.cur_frames)
       IN  /\ start_cell' = sc
           /\ end_cell' = ec
           /\ pgc_id' = pgc_id1
           /\ cur_frames' = acc.cur_frames
           /\ fps' = acc.fps
           /\ overall_frames' = total
           /\ SetWriter(on_chapter_start(W, frames_to_timestamp_ms(total, acc.fps)))
    /\ chapter' = chapter + 1
    /\ UNCHANGED <<inputVars, pc, title, t, handles, exc, ret, logger, messages_,
                   do_report_messages_, writer, cerr, w_title>>

\* Lines 243-244: the title end; vts is closed on return.  In the loop of
\* line 288 the return is followed by ++t.
get_chapters_end ==
    /\ pc = "chapter"
    /\ ~chapter_loop_cond(chapter, tt.nr_of_ptts)
    /\ SetWriter(on_title_end(W))
    /\ handles' = handles \ {"vts"}
    /\ IF title = 0
         THEN t' = t + 1 /\ pc' = "loop"
         ELSE UNCHANGED t /\ pc' = "writer_dtor"
    /\ UNCHANGED <<inputVars, title, exc, ret, logger, messages_, do_report_messages_,
                   writer, cerr, walkVars>>

\* Lines 148-151: the writer leaves scope (normally or while an exception
\* unwinds); vmg and dvd are closed after it.
writer_dtor ==
    /\ pc = "writer_dtor"
    /\ cout' = writer_dtor_markup(cout)
    /\ writer' = "destroyed"
    /\ handles' = {}
    /\ pc' = IF exc.type # "none" THEN "catch" ELSE "disable"
    /\ UNCHANGED <<inputVars, title, t, exc, ret, logger, messages_, do_report_messages_,
                   chapter_num_, rnd_draws, cerr, walkVars>>

\* Lines 304-318: the handlers; each reports and returns 1.
main_catch ==
    /\ pc = "catch"
    /\ cerr' = Append(cerr, [tag  |-> IF exc.type = "libdvdread" THEN "dvd_read_error"
                                      ELSE "fatal_error",
                             what |-> exc.what, arg |-> exc.arg])
    /\ exc' = NoExc
    /\ ret' = 1
    /\ pc' = "logger_dtor"
    /\ UNCHANGED <<inputVars, title, t, handles, logger, messages_, do_report_messages_,
                   writerVars, walkVars>>

\* Line 320 and the end of main.
main_disable_report ==
    /\ pc = "disable"
    /\ do_report_messages_' = disable_report(do_report_messages_)
    /\ ret' = 0
    /\ pc' = "logger_dtor"
    /\ UNCHANGED <<inputVars, title, t, handles, exc, logger, messages_, cerr,
                   writerVars, walkVars>>

\* Lines 40-50: the logger is destroyed when main returns.
logger_dtor ==
    /\ pc = "logger_dtor"
    /\ cerr' = cerr \o logger_dtor_report(do_report_messages_, messages_)
    /\ logger' = "destroyed"
    /\ pc' = "done"
    /\ UNCHANGED <<inputVars, title, t, handles, exc, ret, messages_, do_report_messages_,
                   writerVars, walkVars>>

Next ==
    \/ main_args
    \/ main_dvd_open
    \/ main_vmg_open
    \/ main_select
    \/ main_loop
    \/ get_chapters_open
    \/ get_chapters_step
    \/ get_chapters_end
    \/ writer_dtor
    \/ main_catch
    \/ main_disable_report
    \/ logger_dtor

Spec == Init /\ [][Next]_vars

(* ------------------------ reading the output -------------------------- *)
Tags(stream) == [i \in 1..Len(stream) |-> stream[i].tag]
HasTag(stream, tg) == \E i \in 1..Len(stream) : stream[i].tag = tg
CountTag(stream, tg) == Cardinality({i \in 1..Len(stream) : stream[i].tag = tg})

\* The millisecond value a ChapterTimeStart HH:MM:SS.mmm stands for.
TsOf(atom) == atom.hr * 3600000 + atom.min * 60000 + atom.sec * 1000 + atom.ms

\* The last markup written is a chapter of the walker's loop.
AfterStep == pc = "chapter" /\ chapter >= 1
LastTs == TsOf(cout[Len(cout)])

\* Where the edition of the title being walked starts in cout.
EditionStart ==
    CHOOSE i \in 1..Len(cout) :
        /\ cout[i].tag = "EditionEntry"
        /\ \A j \in (i + 1)..Len(cout) : cout[j].tag # "EditionEntry"

\* The chapter timestamps from position from on start with 0 and never decrease.
Monotone(from) ==
    /\ cout[from + 1].tag = "ChapterAtom" /\ TsOf(cout[from + 1]) = 0
    /\ \A i \in (from + 1)..(Len(cout) - 1) :
          (cout[i].tag = "ChapterAtom" /\ cout[i + 1].tag = "ChapterAtom")
              => TsOf(cout[i]) <= TsOf(cout[i + 1])

\* Every cell record of a title set decodes to the same frame rate.
UniformRate(ifo) ==
    \A g1, g2 \in DOMAIN ifo.vts_pgcit.pgci_srp :
        \A c1 \in DOMAIN ifo.vts_pgcit.pgci_srp[g1].pgc.cell_playback :
            \A c2 \in DOMAIN ifo.vts_pgcit.pgci_srp[g2].pgc.cell_playback :
                cell_fps(ifo.vts_pgcit.pgci_srp[g1].pgc.cell_playback[c1].playback_time.frame_u)
                = cell_fps(ifo.vts_pgcit.pgci_srp[g2].pgc.cell_playback[c2].playback_time.frame_u)

(* ------------------------------- C1 ----------------------------------- *)
\* C1 as stated: in every title the timestamps passed to on_chapter_start
\* start with 0 and never decrease, whatever the cells' durations and rate flags.
C1_AnyTables == pc = "chapter" => Monotone(EditionStart)

\* C1 amended: the timestamps of a title start with 0 and never decrease
\* when all cell records of its title set decode to the same frame rate and
\* the product of the running frame total and the numerator fits 32 bits.
C1_UniformNoWrap ==
    (pc = "chapter" /\ UniformRate(vts) /\ ~product_wraps(overall_frames, fps))
        => Monotone(EditionStart)

\* Three chapters of a single-rate title with strictly growing timestamps.
C1_Witness ==
    /\ pc = "chapter" /\ chapter = 2 /\ UniformRate(vts)
    /\ ~product_wraps(overall_frames, fps)
    /\ 0 < TsOf(cout[Len(cout) - 1]) /\ TsOf(cout[Len(cout) - 1]) < LastTs

(* ------------------------------- C2 ----------------------------------- *)
\* C2 as stated: a selector s with 1 <= s <= T is accepted and exactly the
\* s-th title in enumeration order is processed.
C2_OneBased ==
    (logger # "none" /\ title # 0 /\ title <= tt_srpt.nr_of_srpts
        /\ dvd.present /\ dvd.bad_ifo = -1 /\ rnd_ok)
    => /\ ~HasTag(cerr, "range")
       /\ pc \in {"title_open", "chapter"} => w_title = title - 1
       /\ pc = "done" => (ret = 0 /\ CountTag(cout, "EditionEntry") = 1)

(* ------------------------------- C3 ----------------------------------- *)
\* Root open, then closed editions, then the root close.
WellFormedDoc(stream) ==
    LET n == Len(stream) IN
    /\ n >= 2
    /\ stream[1].tag = "Chapters"
    /\ stream[n].tag = "/Chapters"
    /\ \A i \in 2..n :
          CASE stream[i].tag = "EditionEntry"  -> stream[i - 1].tag \in {"Chapters", "/EditionEntry"}
            [] stream[i].tag = "ChapterAtom"   -> stream[i - 1].tag \in {"EditionEntry", "ChapterAtom"}
            [] stream[i].tag = "/EditionEntry" -> stream[i - 1].tag \in {"EditionEntry", "ChapterAtom"}
            [] stream[i].tag = "/Chapters"     -> i = n /\ stream[i - 1].tag \in {"Chapters", "/EditionEntry"}
            [] OTHER -> FALSE

\* C3: a run that emitted the root open ends with a document of one root
\* open, closed EditionEntry blocks and one root close as its last markup;
\* the root close is never followed by markup and never written twice.
C3_DocumentClosed ==
    /\ (pc = "done" /\ cout # <<>>) => WellFormedDoc(cout)
    /\ \A i \in 1..Len(cout) : cout[i].tag = "/Chapters" => i = Len(cout)
    /\ \A i \in 1..Len(cout) : cout[i].tag = "Chapters" => i = 1

\* A run aborted by a later title's IFO after a complete edition was written.
C3_Witness ==
    /\ pc = "done" /\ ret = 1
    /\ \E i \in 1..Len(cerr) : cerr[i].tag = "dvd_read_error" /\ cerr[i].arg >= 2
    /\ HasTag(cout, "/EditionEntry")
    /\ cout[Len(cout)].tag = "/Chapters"

(* ------------------------------- C4 ----------------------------------- *)
\* C4: a title of N >= 1 markers is written as one title start, N chapter
\* starts numbered 1..N in order, the first at timestamp 0, and one title
\* end, after N - 1 iterations of the pairwise loop.
C4_ChapterCount ==
    (cout # <<>> /\ cout[Len(cout)].tag = "/EditionEntry" /\ tt.nr_of_ptts >= 1)
    => LET n == tt.nr_of_ptts
           l == Len(cout)
       IN  /\ chapter = n - 1
           /\ l >= n + 2
           /\ cout[l - n - 1].tag = "EditionEntry"
           /\ \A k \in 1..n : /\ cout[l - n - 1 + k].tag = "ChapterAtom"
                              /\ cout[l - n - 1 + k].num = k
           /\ TsOf(cout[l - n]) = 0

\* A finished title of at least two markers.
C4_Witness ==
    /\ cout # <<>> /\ cout[Len(cout)].tag = "/EditionEntry"
    /\ tt.nr_of_ptts >= 2 /\ chapter = tt.nr_of_ptts - 1

(* ------------------------------- C5 ----------------------------------- *)
\* C5: with a non-zero selector >= the title count the run writes nothing to
\* the document, never builds the writer, and ends with the range error and
\* exit status 1.
C5_RangeError ==
    (logger # "none" /\ title # 0 /\ title >= tt_srpt.nr_of_srpts)
    => /\ cout = <<>>
       /\ writer = "none"
       /\ (pc = "done" /\ dvd.present /\ dvd.bad_ifo # 0)
            => /\ ret = 1
               /\ \E i \in 1..Len(cerr) :
                     /\ cerr[i].tag = "range"
                     /\ cerr[i].requested = title
                     /\ cerr[i].available = tt_srpt.nr_of_srpts

\* The selector equals the title count of a disc with titles.
C5_Witness ==
    /\ pc = "done" /\ ret = 1 /\ HasTag(cerr, "range")
    /\ title = tt_srpt.nr_of_srpts /\ title >= 1 /\ cout = <<>>

(* ------------------------------- C6 ----------------------------------- *)
\* The quotient frame_count * numerator / frame_rate, truncated, for frame
\* counts whose product is small enough to be formed directly.
DirectMs(frames, rate) ==
    ((IF rate = 30 THEN 1001 ELSE 1000) * frames) \div (IF rate # 0 THEN rate ELSE 1)

\* C6 as stated: truncating frame_count * numerator / frame_rate with
\* convert(25, 25) = 1000, convert(30, 30) = 1001, convert(2997, 30) = 99900.
C6_Examples ==
    AfterStep =>
        /\ (overall_frames <= 2000000) => LastTs = DirectMs(overall_frames, fps)
        /\ (overall_frames = 25 /\ fps = 25) => LastTs = 1000
        /\ (overall_frames = 30 /\ fps = 30) => LastTs = 1001
        /\ (overall_frames = 2997 /\ fps = 30) => LastTs = 99900

\* C6 amended: truncating frame_count * numerator / frame_rate (numerator
\* 1000 for rate 25, 1001 for rate 30) with convert(25, 25) = 1000,
\* convert(30, 30) = 1001 and convert(2997, 30) = 99999.
C6_ExamplesAmended ==
    AfterStep =>
        /\ (overall_frames <= 2000000) => LastTs = DirectMs(overall_frames, fps)
        /\ (overall_frames = 25 /\ fps = 25) => LastTs = 1000
        /\ (overall_frames = 30 /\ fps = 30) => LastTs = 1001
        /\ (overall_frames = 2997 /\ fps = 30) => LastTs = 99999

\* The walker converted 2997 frames at rate 30.
C6_Witness == AfterStep /\ overall_frames = 2997 /\ fps = 30 /\ LastTs = 99999

(* ------------------------------- C7 ----------------------------------- *)
\* The cell table the last iteration read, and whether it read exactly the
\* three cells of 100, 200 and 50 frames at rate 30 (3 s 10 f, 6 s 20 f, 1 s 20 f).
ReadTable == vts.vts_pgcit.pgci_srp[pgc_id].pgc.cell_playback
ReadThreeCells ==
    /\ AfterStep
    /\ end_cell = start_cell + 2
    /\ ReadTable[start_cell + 1] = Cell(0, 0, 3, 208)
    /\ ReadTable[start_cell + 2] = Cell(0, 0, 6, 224)
    /\ ReadTable[start_cell + 3] = Cell(0, 0, 1, 224)

\* C7 as stated: the subtotal is 350 frames and a first chapter's event
\* carries 11677 ms.
C7_MultiCell ==
    ReadThreeCells =>
        /\ cur_frames = 350
        /\ chapter = 1 => (overall_frames = 350 /\ LastTs = 11677)

\* C7 amended: the subtotal is 350 frames and a first chapter's event
\* carries 350 * 1001 / 30 = 11678 ms.
C7_MultiCellAmended ==
    ReadThreeCells =>
        /\ cur_frames = 350
        /\ chapter = 1 => (overall_frames = 350 /\ LastTs = 11678)

\* The three-cell chapter was walked as the title's first chapter.
C7_Witness == ReadThreeCells /\ chapter = 1 /\ cur_frames = 350 /\ LastTs = 11678

(* ------------------------------- C8 ----------------------------------- *)
Bit(b, k) == (b \div (2 ^ k)) % 2

\* The last iteration read exactly one cell; its time record.
ReadOneCell == AfterStep /\ start_cell = end_cell
TheCell == ReadTable[start_cell + 1].playback_time
Seconds(dt) == from_bcd(dt.hour) * 3600 + from_bcd(dt.minute) * 60 + from_bcd(dt.second)

\* The BCD decoding of the low 6 bits of the combined byte.
Bcd6(b) == ((b % 64) \div 16) * 10 + (b % 16)

\* C8 as stated: the rate is 25 when bit 6 is set and 30 when it is clear,
\* whatever the other bits; the frame field is the BCD of the low 6 bits.
C8_Bit6 ==
    ReadOneCell =>
        /\ fps = (IF Bit(TheCell.frame_u, 6) = 1 THEN 25 ELSE 30)
        /\ cur_frames = Seconds(TheCell) * fps + Bcd6(TheCell.frame_u)

\* C8 amended: the rate is 25 when bit 6 is set and bit 7 is clear and 30
\* otherwise; the frame field is the BCD of the low 6 bits.
C8_Bits76 ==
    ReadOneCell =>
        /\ fps = (IF Bit(TheCell.frame_u, 6) = 1 /\ Bit(TheCell.frame_u, 7) = 0
                  THEN 25 ELSE 30)
        /\ cur_frames = Seconds(TheCell) * fps + Bcd6(TheCell.frame_u)

\* A byte with bits 7 and 6 both set was read: rate 30, frame field 45.
C8_Witness ==
    /\ ReadOneCell /\ TheCell.frame_u = 255 /\ fps = 30
    /\ cur_frames = Seconds(TheCell) * 30 + 45

(* ------------------------------- C9 ----------------------------------- *)
\* C9 as stated: the cells summed for chapter i (the iteration that just
\* ran, i = chapter) are read from the cell table of the program chain
\* named by marker i, from that chain's program_map entry minus one.
C9_MarkerChain ==
    (AfterStep /\ start_cell <= end_cell)
    => LET m   == vts.vts_ptt_srpt.title[tt.vts_ttn].ptt[chapter]
           pgc == vts.vts_pgcit.pgci_srp[m.pgcn].pgc
       IN  /\ start_cell = pgc.program_map[m.pgn] - 1
           /\ pgc_id = m.pgcn
           /\ cur_frames = cell_loop(pgc.cell_playback, start_cell, end_cell,
                                     [cur_frames |-> 0, fps |-> 0]).cur_frames

(* ------------------------------- C10 ---------------------------------- *)
ErrorTags == {"usage", "could_not_convert", "negative_title", "range",
              "dvd_read_error", "fatal_error"}

\* The diagnostic stream ends with the report of all collected messages.
Reported ==
    \E h \in 1..Len(cerr) :
        /\ cerr[h].tag = "report_header"
        /\ Len(cerr) = h + Len(messages_)
        /\ \A k \in 1..Len(messages_) :
              /\ cerr[h + k].tag = "message"
              /\ cerr[h + k].lvl = lvl_to_str(messages_[k].lvl)
              /\ cerr[h + k].len = messages_[k].len

\* C10: a run that completes its titles disables the report before the
\* logger is destroyed and reports no message; a run that fails after the
\* logger was built reports all of them; the exit status is 1 exactly when
\* an error line was written, whatever was collected.
C10_ReportOnFailure ==
    /\ (HasTag(cerr, "report_header") \/ HasTag(cerr, "message")) => logger = "destroyed"
    /\ pc = "done" =>
          /\ ret = 0 => /\ logger = "destroyed" /\ ~do_report_messages_
                        /\ ~HasTag(cerr, "report_header") /\ ~HasTag(cerr, "message")
          /\ (ret = 1 /\ logger = "destroyed") => Reported
          /\ ret = 1 <=> \E i \in 1..Len(cerr) : cerr[i].tag \in ErrorTags

\* A successful run that had collected messages and reported none.
C10_Witness ==
    /\ pc = "done" /\ ret = 0 /\ messages_ # <<>>
    /\ ~HasTag(cerr, "report_header") /\ cout # <<>>

====
